---------------------------- MODULE Spec2Model ----------------------------
(***************************************************************************)
(* Lead-capture REST API (src/server.js) over the relational store of      *)
(* src/unnamed/part_000 (the SQL migration: tables leads, conversoes and    *)
(* the unique index leads_email_key).                                       *)
(*                                                                         *)
(* Every HTTP handler is an async function: it runs without interruption   *)
(* from one await to the next, and the store executes each awaited call    *)
(* atomically.  A request is one action per awaited store call: the call   *)
(* together with the handler's code around it.  The code before the first  *)
(* await reads only the request and process.env, so it belongs to the      *)
(* action of the first call (or is the whole action when the handler       *)
(* answers before any call).  Actions of different requests interleave     *)
(* freely, and the handlers in flight form a bag: they have no identity    *)
(* beyond the request they serve.  GET /health and the 404 fallback touch  *)
(* no state and are left out.                                              *)
(*                                                                         *)
(* JavaScript strings are sequences of one-character strings.  A request   *)
(* value is a record [t, v, n]: t is the JavaScript type, v the characters *)
(* of a string (for an array: of String(array)), n the length property of  *)
(* an array.                                                               *)
(***************************************************************************)
EXTENDS Integers, Sequences, FiniteSets, Bags, TLC

(***************************************************************************)
(* Bounds of the model.                                                    *)
(***************************************************************************)
NumReq == 2        \* request handlers that can be in flight together
MaxLeads == 2      \* rows of table leads
MaxConv == 1       \* rows of table conversoes
MaxClock == 1      \* ticks of the store's clock
MaxListLeads == 4  \* rows of the stores the listing is checked on
MaxPage == 3       \* page numbers of the listing requests
MaxLimit == 3      \* page sizes of the listing requests

(***************************************************************************)
(* JavaScript values                                                       *)
(***************************************************************************)
Str(s) == [t |-> "string", v |-> s, n |-> 0]
Undef == [t |-> "undefined", v |-> <<>>, n |-> 0]
Null == [t |-> "null", v |-> <<>>, n |-> 0]
\* an array of n strings whose String() is s
Arr(s, n) == [t |-> "array", v |-> s, n |-> n]

\* !x is false exactly for these
Truthy(x) == \/ x.t = "array"
             \/ x.t = "string" /\ x.v # <<>>

\* x || d
OrElse(x, d) == IF Truthy(x) THEN x ELSE d

WhiteSpace == {" "}
Digit == {"0", "1", "2", "3", "4", "5", "6", "7", "8", "9"}

RECURSIVE trimStart(_)
trimStart(s) ==
  IF s # <<>> /\ Head(s) \in WhiteSpace THEN trimStart(Tail(s)) ELSE s

RECURSIVE trimEnd(_)
trimEnd(s) ==
  IF s # <<>> /\ s[Len(s)] \in WhiteSpace
  THEN trimEnd(SubSeq(s, 1, Len(s) - 1)) ELSE s

\* String.prototype.trim
trim(s) == trimEnd(trimStart(s))

lowerChar(c) == CASE c = "A" -> "a"
                  [] c = "B" -> "b"
                  [] c = "C" -> "c"
                  [] OTHER -> c

\* String.prototype.toLowerCase
toLowerCase(s) == [i \in 1 .. Len(s) |-> lowerChar(s[i])]

NotAngle(c) == c \notin {"<", ">"}

\* function sanitizeInput(str)
sanitizeInput(x) ==
  IF x.t # "string" THEN x ELSE Str(SelectSeq(trim(x.v), NotAngle))

\* [^\s@]+ on s[a..b]
LocalPart(s, a, b) ==
  /\ a <= b
  /\ \A k \in a .. b : s[k] \notin WhiteSpace \cup {"@"}

\* function isValidEmail(email): the regular expression is tested on String(email)
isValidEmail(x) ==
  LET s == IF x.t \in {"string", "array"} THEN x.v
           ELSE <<"u", "n", "d", "e", "f", "i", "n", "e", "d">>
  IN \E i \in 1 .. Len(s) : \E j \in 1 .. Len(s) :
       /\ s[i] = "@"
       /\ s[j] = "."
       /\ LocalPart(s, 1, i - 1)
       /\ LocalPart(s, i + 1, j - 1)
       /\ LocalPart(s, j + 1, Len(s))

IsDigit(c) == c \in Digit

\* function isValidPhone(phone)
isValidPhone(x) ==
  IF ~Truthy(x) \/ x.t # "string" THEN FALSE
  ELSE LET cleanPhone == SelectSeq(x.v, IsDigit)
       IN IF Len(cleanPhone) >= 2 /\ SubSeq(cleanPhone, 1, 2) = <<"5", "5">>
          THEN Len(cleanPhone) - 2 >= 10 /\ Len(cleanPhone) - 2 <= 11
          ELSE Len(cleanPhone) >= 10 /\ Len(cleanPhone) <= 11

\* x.length < 2, false when x has no length (undefined < 2)
LengthBelow2(x) == CASE x.t = "string" -> Len(x.v) < 2
                     [] x.t = "array" -> x.n < 2
                     [] OTHER -> FALSE


\* Math.ceil(a / b) for a >= 0, b >= 1
ceilDiv(a, b) == (a + b - 1) \div b

Min(a, b) == IF a <= b THEN a ELSE b

(***************************************************************************)
(* Program literals                                                        *)
(***************************************************************************)
novo == <<"n", "o", "v", "o">>
contatado == <<"c", "o", "n", "t", "a", "t", "a", "d", "o">>
interessado == <<"i", "n", "t", "e", "r", "e", "s", "s", "a", "d", "o">>
convertido == <<"c", "o", "n", "v", "e", "r", "t", "i", "d", "o">>
descartado == <<"d", "e", "s", "c", "a", "r", "t", "a", "d", "o">>
website == <<"w", "e", "b", "s", "i", "t", "e">>

\* const validStatuses = [...]
validStatuses == {novo, contatado, interessado, convertido, descartado}

\* the literal every gated handler compares the key with
FallbackKey ==
  <<"m", "e", "n", "t", "e", "-", "m", "i", "l", "i", "o", "n", "a", "r",
    "i", "a", "-", "2", "0", "2", "4">>

\* const { key, page = 1, limit = 20, ... } = req.query
DefaultPage == 1
DefaultLimit == 20

(***************************************************************************)
(* State                                                                   *)
(***************************************************************************)
VARIABLES
  API_KEY,     \* process.env.API_KEY: Undef when the variable is not set
  leads,       \* table leads, in insertion order; a row's id is its position
  conversoes,  \* table conversoes, in insertion order
  now,         \* the time of the store's last write
  inflight,    \* the handlers suspended at an await: a bag of [req, pc, loc]
  out          \* the request answered by the last step and its response

vars == <<API_KEY, leads, conversoes, now, inflight, out>>

NoBody == [nome |-> Undef, email |-> Undef, telefone |-> Undef,
           origem |-> Undef, utm_source |-> Undef]
NoQuery == [page |-> <<>>, limit |-> <<>>, status |-> Undef,
            search |-> Undef, origem |-> Undef]
NoConv == [tipo |-> Undef, valor |-> <<>>]
NoReq == [op |-> "none", key |-> Undef, id |-> 0, body |-> NoBody,
          status |-> Undef, query |-> NoQuery, conv |-> NoConv]
\* a handler's locals that outlive an await: the results of findMany and
\* count (GET /api/leads) and the created conversao
NoLoc == [leads |-> <<>>, gotLeads |-> FALSE, total |-> <<>>,
          conversao |-> <<>>]
NoRes == [status |-> 0, code |-> "", data |-> <<>>, summary |-> <<>>,
          info |-> <<>>, conv |-> <<>>, porStatus |-> {}, porOrigem |-> {},
          porUtmSource |-> {}]
NoOut == [req |-> NoReq, res |-> NoRes]

\* res.status(s).json({ success: false, code: c })
Fail(s, c) == [NoRes EXCEPT !.status = s, !.code = c]
\* res.json / res.status(s).json({ success: true, ... })
Ok(s) == [NoRes EXCEPT !.status = s, !.code = "OK"]

Handlers == BagToSet(inflight)

\* a handler is free to take a request
Room == BagCardinality(inflight) < NumReq

\* request q is answered with rs before any further await
Answer(q, rs) ==
  /\ UNCHANGED inflight
  /\ out' = [req |-> q, res |-> rs]

\* the handler of request q suspends at the await `at` with locals l
Start(q, at, l) ==
  /\ inflight' = inflight (+) SetToBag({[req |-> q, pc |-> at, loc |-> l]})
  /\ out' = NoOut

\* handler h goes on to its next await with locals l
Continue(h, at, l) ==
  /\ inflight' = (inflight (-) SetToBag({h}))
                   (+) SetToBag({[req |-> h.req, pc |-> at, loc |-> l]})
  /\ out' = NoOut

\* handler h answers its request with rs and ends
Finish(h, rs) ==
  /\ inflight' = inflight (-) SetToBag({h})
  /\ out' = [req |-> h.req, res |-> rs]

(***************************************************************************)
(* The store (prisma calls on the tables of the migration)                 *)
(***************************************************************************)
\* prisma.lead.findUnique({ where: { email } }): the rows with that email
LeadsByEmail(ls, email) == {i \in 1 .. Len(ls) : ls[i].email = email}

\* a table without the index: no insert is rejected
NoUniqueIndex(ls, email) == FALSE

\* CREATE UNIQUE INDEX "leads_email_key" ON "leads"("email"): whether
\* inserting a row with this email violates it (Prisma error P2002)
UniqueViolation(ls, email) == LeadsByEmail(ls, email) # {}

\* whether a row with this id exists (else update throws P2025)
LeadExists(ls, id) == id \in 1 .. Len(ls)

\* an update without its where clause: every row is written
LeadUpdateMany(ls, id, status, t) ==
  [i \in 1 .. Len(ls) |->
     [ls[i] EXCEPT !.status = status, !.dataAtualizacao = t]]

\* an update without its data: only the update timestamp moves
LeadUpdateTouch(ls, id, status, t) == [ls EXCEPT ![id].dataAtualizacao = t]

\* prisma.lead.update({ where: { id }, data: { status } }) at time t
LeadUpdate(ls, id, status, t) ==
  [ls EXCEPT ![id].status = status, ![id].dataAtualizacao = t]

\* CURRENT_TIMESTAMP of a write: the clock has ticked since the last write
\* or it has not
Times == {now, Min(now + 1, MaxClock)}

(***************************************************************************)
(* The access gate                                                         *)
(***************************************************************************)
\* if (key !== process.env.API_KEY && key !== 'mente-milionaria-2024') -> 401
Unauthorized(key) == key # API_KEY /\ key # Str(FallbackKey)

(***************************************************************************)
(* POST /api/leads                                                         *)
(***************************************************************************)
\* the checks before the first await, in order: the code of the first
\* failing check, or "OK"
Validate(body) ==
  LET nome == sanitizeInput(body.nome)
      email == sanitizeInput(body.email)
      telefone == sanitizeInput(body.telefone)
  IN IF ~Truthy(nome) \/ ~Truthy(email) \/ ~Truthy(telefone)
     THEN "MISSING_FIELDS"
     ELSE IF LengthBelow2(nome) THEN "INVALID_NAME"
     ELSE IF ~isValidEmail(email) THEN "INVALID_EMAIL"
     ELSE IF ~isValidPhone(telefone) THEN "INVALID_PHONE"
     ELSE "OK"

\* email.toLowerCase() of the sanitized email, the key of the pre-check
LookupEmail(body) == toLowerCase(sanitizeInput(body.email).v)

\* the data object of prisma.lead.create, as row `id` created at time t
NewLead(body, id, t) ==
  [id |-> id,
   nome |-> trim(sanitizeInput(body.nome).v),
   email |-> trim(toLowerCase(sanitizeInput(body.email).v)),
   telefone |-> trim(sanitizeInput(body.telefone).v),
   origem |-> OrElse(sanitizeInput(body.origem), Str(website)).v,
   utmSource |-> OrElse(body.utm_source, Null),
   status |-> novo,
   dataCaptura |-> t,
   dataAtualizacao |-> t]

\* the data of the 201 response
Summary(l) == [id |-> l.id, nome |-> l.nome, email |-> l.email,
               dataCaptura |-> l.dataCaptura]

\* a catch block that does not look at the error code
CreateErrorUnmapped(code) == Fail(500, "INTERNAL_ERROR")

\* the catch block: the response for an error with this code
CreateError(code) ==
  IF code = "P2002" THEN Fail(409, "EMAIL_EXISTS")
  ELSE Fail(500, "INTERNAL_ERROR")

\* the response of the pre-check when findUnique returned row l
EmailExists(l) ==
  [Fail(409, "EMAIL_EXISTS") EXCEPT !.info = <<l.dataCaptura>>]

SubmitReq(body) == [NoReq EXCEPT !.op = "submit_lead", !.body = body]

\* sanitize, validate, findUnique; on no match the handler issues create
SubmitLead(body) ==
  /\ Room
  /\ IF Validate(body) # "OK"
     THEN Answer(SubmitReq(body), Fail(400, Validate(body)))
     ELSE IF sanitizeInput(body.email).t # "string"
     \* email.toLowerCase is not a function: TypeError, caught
     THEN Answer(SubmitReq(body), CreateError("TypeError"))
     ELSE LET found == LeadsByEmail(leads, LookupEmail(body))
          IN IF found # {}
             THEN Answer(SubmitReq(body),
                         EmailExists(leads[CHOOSE i \in found : TRUE]))
             ELSE IF sanitizeInput(body.nome).t # "string"
             \* nome.trim is not a function: TypeError, caught
             THEN Answer(SubmitReq(body), CreateError("TypeError"))
             ELSE Start(SubmitReq(body), "lead_create", NoLoc)
  /\ UNCHANGED <<API_KEY, leads, conversoes, now>>

\* create answers: the row is inserted, or the unique index rejects it
SubmitCreate(h) ==
  /\ h.pc = "lead_create"
  /\ IF UniqueViolation(leads, NewLead(h.req.body, 0, now).email)
     THEN /\ Finish(h, CreateError("P2002"))
          /\ UNCHANGED <<leads, now>>
     ELSE /\ Len(leads) < MaxLeads
          /\ \E t \in Times :
               LET newLead == NewLead(h.req.body, Len(leads) + 1, t)
               IN /\ leads' = Append(leads, newLead)
                  /\ now' = t
                  /\ Finish(h, [Ok(201) EXCEPT !.summary = <<Summary(newLead)>>])
  /\ UNCHANGED <<API_KEY, conversoes>>

(***************************************************************************)
(* GET /api/leads                                                          *)
(***************************************************************************)
\* { contains: sub, mode: 'insensitive' }
Contains(s, sub) ==
  \E i \in 0 .. Len(s) - Len(sub) :
    SubSeq(toLowerCase(s), i + 1, i + Len(sub)) = toLowerCase(sub)

\* the where object built from the query: whether row l matches it
Matches(l, q) ==
  /\ Truthy(q.status) => l.status = q.status.v
  /\ Truthy(q.origem) => l.origem = q.origem.v
  /\ Truthy(q.search) =>
       Contains(l.nome, q.search.v) \/ Contains(l.email, q.search.v)

Matching(ls, q) == {i \in 1 .. Len(ls) : Matches(ls[i], q)}

\* parseInt(page), parseInt(limit) with the defaults of the destructuring
PageOf(q) == IF q.page = <<>> THEN DefaultPage ELSE q.page[1]
LimitOf(q) == IF q.limit = <<>> THEN DefaultLimit ELSE q.limit[1]

\* an offset that counts the requested page too
SkipWholePages(q) == PageOf(q) * LimitOf(q)

\* const skip = (parseInt(page) - 1) * parseInt(limit)
Skip(q) == (PageOf(q) - 1) * LimitOf(q)

\* orderBy: { dataCaptura: 'desc' }: the orders the store may return the
\* matching rows in (rows captured at the same time come in any order)
Ordered(ls, q) ==
  LET M == Matching(ls, q)
      n == Cardinality(M)
  IN {f \in [1 .. n -> M] :
        /\ \A i, j \in 1 .. n : i # j => f[i] # f[j]
        /\ \A i, j \in 1 .. n :
             i < j => ls[f[i]].dataCaptura >= ls[f[j]].dataCaptura}

\* skip and take applied to an order of row ids
PageRows(ls, ord, q) ==
  LET from == Skip(q) + 1
      to == Min(Skip(q) + LimitOf(q), Len(ord))
  IN [k \in 1 .. (IF to >= from THEN to - from + 1 ELSE 0) |->
        ls[ord[from + k - 1]]]

\* res.json({ data: leads, pagination: { total, page, limit, totalPages } })
ListResponse(rows, total, q) ==
  [Ok(200) EXCEPT
     !.data = rows,
     !.info = <<total, PageOf(q), LimitOf(q), ceilDiv(total, LimitOf(q))>>]

ListReq(key, q) ==
  [NoReq EXCEPT !.op = "list_leads", !.key = key, !.query = q]

\* the gate; findMany and count are issued together (Promise.all)
ListLeads(key, q) ==
  /\ Room
  /\ IF Unauthorized(key)
     THEN Answer(ListReq(key, q), Fail(401, "UNAUTHORIZED"))
     ELSE Start(ListReq(key, q), "list_queries", NoLoc)
  /\ UNCHANGED <<API_KEY, leads, conversoes, now>>

\* findMany answers; the response goes out once count has answered too
ListFindMany(h) ==
  /\ h.pc = "list_queries"
  /\ ~h.loc.gotLeads
  /\ \E ord \in Ordered(leads, h.req.query) :
       LET rows == PageRows(leads, ord, h.req.query)
       IN IF h.loc.total # <<>>
          THEN Finish(h, ListResponse(rows, h.loc.total[1], h.req.query))
          ELSE Continue(h, "list_queries",
                        [h.loc EXCEPT !.leads = rows, !.gotLeads = TRUE])
  /\ UNCHANGED <<API_KEY, leads, conversoes, now>>

\* count answers; the response goes out once findMany has answered too
ListCount(h) ==
  /\ h.pc = "list_queries"
  /\ h.loc.total = <<>>
  /\ LET total == Cardinality(Matching(leads, h.req.query))
     IN IF h.loc.gotLeads
        THEN Finish(h, ListResponse(h.loc.leads, total, h.req.query))
        ELSE Continue(h, "list_queries", [h.loc EXCEPT !.total = <<total>>])
  /\ UNCHANGED <<API_KEY, leads, conversoes, now>>

(***************************************************************************)
(* GET /api/leads/:id                                                      *)
(***************************************************************************)
GetReq(key, id) == [NoReq EXCEPT !.op = "get_lead", !.key = key, !.id = id]

GetLead(key, id) ==
  /\ Room
  /\ IF Unauthorized(key)
     THEN Answer(GetReq(key, id), Fail(401, "UNAUTHORIZED"))
     ELSE IF LeadExists(leads, id)
     THEN Answer(GetReq(key, id), [Ok(200) EXCEPT !.data = <<leads[id]>>])
     ELSE Answer(GetReq(key, id), Fail(404, "LEAD_NOT_FOUND"))
  /\ UNCHANGED <<API_KEY, leads, conversoes, now>>

(***************************************************************************)
(* PATCH /api/leads/:id/status                                             *)
(***************************************************************************)
\* a handler without the includes check
AnyStatus(status) == TRUE

\* validStatuses.includes(status)
StatusIsValid(status) == status.t = "string" /\ status.v \in validStatuses

\* the catch block of the handler
UpdateError(code) ==
  IF code = "P2025" THEN Fail(404, "LEAD_NOT_FOUND")
  ELSE Fail(500, "INTERNAL_ERROR")

StatusReq(key, id, status) ==
  [NoReq EXCEPT !.op = "update_status", !.key = key, !.id = id,
                !.status = status]

UpdateStatus(key, id, status) ==
  /\ Room
  /\ IF Unauthorized(key)
     THEN /\ Answer(StatusReq(key, id, status), Fail(401, "UNAUTHORIZED"))
          /\ UNCHANGED <<leads, now>>
     ELSE IF ~StatusIsValid(status)
     THEN /\ Answer(StatusReq(key, id, status), Fail(400, "INVALID_STATUS"))
          /\ UNCHANGED <<leads, now>>
     ELSE IF LeadExists(leads, id)
     THEN \E t \in Times :
            /\ leads' = LeadUpdate(leads, id, status.v, t)
            /\ now' = t
            /\ Answer(StatusReq(key, id, status),
                      [Ok(200) EXCEPT !.data = <<leads'[id]>>])
     ELSE /\ Answer(StatusReq(key, id, status), UpdateError("P2025"))
          /\ UNCHANGED <<leads, now>>
  /\ UNCHANGED <<API_KEY, conversoes>>

(***************************************************************************)
(* GET /api/stats                                                          *)
(* The counts since today, the last 7 and the last 30 days depend on the   *)
(* wall clock and are left out; the groupings are read in one step.        *)
(***************************************************************************)
\* prisma.lead.groupBy({ by: [field], _count: { [field]: true } })
GroupBy(ls, field) ==
  {<<k, Cardinality({i \in 1 .. Len(ls) : ls[i][field] = k})>> :
     k \in {ls[i][field] : i \in 1 .. Len(ls)}}

StatsResponse(ls) ==
  [Ok(200) EXCEPT
     !.info = <<Len(ls)>>,
     !.porStatus = GroupBy(ls, "status"),
     !.porOrigem = GroupBy(ls, "origem"),
     !.porUtmSource = {g \in GroupBy(ls, "utmSource") : g[1] # Null}]

StatsReq(key) == [NoReq EXCEPT !.op = "stats", !.key = key]

Stats(key) ==
  /\ Room
  /\ IF Unauthorized(key)
     THEN Answer(StatsReq(key), Fail(401, "UNAUTHORIZED"))
     ELSE Answer(StatsReq(key), StatsResponse(leads))
  /\ UNCHANGED <<API_KEY, leads, conversoes, now>>

(***************************************************************************)
(* POST /api/leads/:leadId/conversao                                       *)
(***************************************************************************)
\* the data object of prisma.conversao.create, as row `id` created at time t
NewConversao(leadId, c, id, t) ==
  [id |-> id,
   leadId |-> leadId,
   tipo |-> c.tipo.v,
   valor |-> IF c.valor # <<>> /\ c.valor[1] # 0 THEN c.valor ELSE <<>>,
   dataConversao |-> t]

\* the catch block of the handler: every error is answered alike
ConversaoError(code) == Fail(500, "INTERNAL_ERROR")

ConversaoReq(key, leadId, c) ==
  [NoReq EXCEPT !.op = "record_conversion", !.key = key, !.id = leadId,
                !.conv = c]

\* the gate, then conversao.create: "tipo" TEXT NOT NULL rejects a missing
\* tipo; table conversoes has no foreign key, so any lead_id is inserted.
\* On success the handler issues lead.update
RecordConversion(key, leadId, c) ==
  /\ Room
  /\ IF Unauthorized(key)
     THEN /\ Answer(ConversaoReq(key, leadId, c), Fail(401, "UNAUTHORIZED"))
          /\ UNCHANGED <<conversoes, now>>
     ELSE IF c.tipo.t # "string"
     THEN /\ Answer(ConversaoReq(key, leadId, c), ConversaoError("validation"))
          /\ UNCHANGED <<conversoes, now>>
     ELSE /\ Len(conversoes) < MaxConv
          /\ \E t \in Times :
               LET conversao ==
                     NewConversao(leadId, c, Len(conversoes) + 1, t)
               IN /\ conversoes' = Append(conversoes, conversao)
                  /\ now' = t
                  /\ Start(ConversaoReq(key, leadId, c), "lead_update",
                           [NoLoc EXCEPT !.conversao = <<conversao>>])
  /\ UNCHANGED <<API_KEY, leads>>

\* update answers: the lead's status is forced, or the lead is missing (P2025)
ConversaoLeadUpdate(h) ==
  /\ h.pc = "lead_update"
  /\ IF LeadExists(leads, h.req.id)
     THEN \E t \in Times :
            /\ leads' = LeadUpdate(leads, h.req.id, convertido, t)
            /\ now' = t
            /\ Finish(h, [Ok(201) EXCEPT !.conv = h.loc.conversao])
     ELSE /\ Finish(h, ConversaoError("P2025"))
          /\ UNCHANGED <<leads, now>>
  /\ UNCHANGED <<API_KEY, conversoes>>

(***************************************************************************)
(* Requests the model sends                                                *)
(***************************************************************************)
Jo == <<"J", "o">>
EmailA == <<"a", "@", "b", ".", "c">>
EmailAUpper == <<"A", "@", "B", ".", "c">>
EmailB == <<"b", "@", "c", ".", "a">>
Phone11 == <<"1", "1", "9", "8", "7", "6", "5", "4", "3", "2", "1">>
Phone55 == <<"5", "5">> \o Phone11
Ads == <<"a", "d", "s">>
Venda == <<"v", "e", "n", "d", "a">>
SecretKey == <<"s", "3", "c", "r", "e", "t">>

Body(nome, email, telefone) ==
  [NoBody EXCEPT !.nome = nome, !.email = email, !.telefone = telefone]

BodyOk == Body(Str(Jo), Str(EmailA), Str(Phone11))
\* the same address in another letter case
BodyDup == Body(Str(Jo), Str(EmailAUpper), Str(Phone11))
\* another address; a name that is blank but for one letter once the angle
\* bracket is stripped
BodyOther ==
  [Body(Str(<<"<", " ", "a">>), Str(EmailB), Str(<<" ">> \o Phone55))
     EXCEPT !.origem = Str(Ads), !.utm_source = Str(Ads)]

Bodies == {BodyOk, BodyDup, BodyOther, NoBody}

Keys == {Undef, Str(FallbackKey), Str(SecretKey)}

\* every key with the first parameters, the fallback key with all of them
Gated(P) ==
  {<<k, CHOOSE p \in P : TRUE>> : k \in Keys}
    \cup {<<Str(FallbackKey), p>> : p \in P}

\* an id no row has, and the first row's
TargetIds == {0, 1}

Queries == {[NoQuery EXCEPT !.limit = <<1>>]}

StatusInputs ==
  {Str(contatado), Undef,
   Str(<<"f", "i", "n", "a", "l", "i", "z", "a", "d", "o">>)}

ConvInputs ==
  {[tipo |-> Str(Venda), valor |-> <<97>>], [tipo |-> Undef, valor |-> <<>>]}

(***************************************************************************)
(* Specification                                                           *)
(***************************************************************************)
TypeOK ==
  /\ API_KEY \in {Undef, Str(SecretKey)}
  /\ now \in 0 .. MaxClock
  /\ Len(leads) <= MaxLeads
  /\ Len(conversoes) <= MaxConv
  /\ BagCardinality(inflight) <= NumReq

Init ==
  /\ API_KEY \in {Undef, Str(SecretKey)}
  /\ leads = <<>>
  /\ conversoes = <<>>
  /\ now = 0
  /\ inflight = EmptyBag
  /\ out = NoOut

Next ==
  \/ \E body \in Bodies : SubmitLead(body)
  \/ \E h \in Handlers : SubmitCreate(h)
  \/ \E g \in Gated(Queries) : ListLeads(g[1], g[2])
  \/ \E h \in Handlers : ListFindMany(h)
  \/ \E h \in Handlers : ListCount(h)
  \/ \E g \in Gated(TargetIds) : GetLead(g[1], g[2])
  \/ \E g \in Gated(TargetIds \X StatusInputs) :
       UpdateStatus(g[1], g[2][1], g[2][2])
  \/ \E k \in Keys : Stats(k)
  \/ \E g \in Gated(TargetIds \X ConvInputs) :
       RecordConversion(g[1], g[2][1], g[2][2])
  \/ \E h \in Handlers : ConversaoLeadUpdate(h)

Spec == Init /\ [][Next]_vars

(***************************************************************************)
(* The listing on a given store: the store holds any leads that requests   *)
(* can have left there, and listing requests come one at a time.           *)
(***************************************************************************)
Letters == <<"a", "b", "c", "d", "e", "f", "g", "h">>

\* row i of a store: captured at time t, now in status s
ListRow(i, t, s) ==
  [id |-> i, nome |-> Jo, email |-> <<Letters[i]>> \o Tail(EmailA),
   telefone |-> Phone11, origem |-> website, utmSource |-> Null,
   status |-> s, dataCaptura |-> t, dataAtualizacao |-> t]

ListStores ==
  UNION {{[i \in 1 .. n |-> ListRow(i, ts[i], ss[i])] :
            ts \in {f \in [1 .. n -> 0 .. MaxClock] :
                      \A i, j \in 1 .. n : i < j => f[i] <= f[j]},
            ss \in [1 .. n -> {novo, contatado}]} : n \in 0 .. MaxListLeads}

ListQueries ==
  {[NoQuery EXCEPT !.page = <<p>>, !.limit = <<l>>, !.status = s] :
     p \in 1 .. MaxPage, l \in 1 .. MaxLimit, s \in {Undef, Str(novo)}}

InitList ==
  /\ API_KEY \in {Undef, Str(SecretKey)}
  /\ leads \in ListStores
  /\ conversoes = <<>>
  /\ now = MaxClock
  /\ inflight = EmptyBag
  /\ out = NoOut

NextList ==
  \/ \E q \in ListQueries :
       inflight = EmptyBag /\ ListLeads(Str(FallbackKey), q)
  \/ \E h \in Handlers : ListFindMany(h)
  \/ \E h \in Handlers : ListCount(h)

SpecList == InitList /\ [][NextList]_vars

(***************************************************************************)
(* Properties                                                              *)
(***************************************************************************)
GatedOps == {"list_leads", "get_lead", "update_status", "stats",
             "record_conversion"}

\* C1: no two stored leads have the same email compared without regard to
\* letter case, whatever the interleaving of the submissions, and a step
\* that answers a submission leaves every lead stored before it as it was.
C1_EmailUnique ==
  [][/\ \A i, j \in 1 .. Len(leads') :
          i # j => toLowerCase(leads'[i].email) # toLowerCase(leads'[j].email)
     /\ out'.req.op = "submit_lead" =>
          \A i \in 1 .. Len(leads) : i <= Len(leads') /\ leads'[i] = leads[i]
    ]_vars

\* a submission of a stored address in another letter case was turned down
C1_DuplicateRejected ==
  /\ out.req.op = "submit_lead"
  /\ out.res.status = 409
  /\ \E i \in 1 .. Len(leads) :
       /\ out.req.body.email.v # leads[i].email
       /\ toLowerCase(out.req.body.email.v) = leads[i].email

\* C2: a valid submission is answered 409 EMAIL_EXISTS, and stores nothing,
\* when its email is stored by the time it is answered (by the pre-check or
\* by the insert); otherwise it is answered 201 and its lead is the one
\* stored lead with that email.  A rejected insert is never answered 500.
C2_DuplicateAnswered ==
  [][(out'.req.op = "submit_lead" /\ Validate(out'.req.body) = "OK") =>
       LET e == LookupEmail(out'.req.body)
       IN IF \E i \in 1 .. Len(leads) : leads[i].email = e
          THEN /\ out'.res.status = 409
               /\ out'.res.code = "EMAIL_EXISTS"
               /\ leads' = leads
          ELSE /\ out'.res.status = 201
               /\ Len(leads') = Len(leads) + 1
               /\ leads'[Len(leads')].email = e
               /\ Cardinality({i \in 1 .. Len(leads') : leads'[i].email = e}) = 1
    ]_vars

\* a submission passed the pre-check and its insert was rejected by the index
C2_InsertRejected ==
  /\ out.req.op = "submit_lead"
  /\ out.res.code = "EMAIL_EXISTS"
  /\ out.res.info = <<>>
  /\ Len(leads) = 1

\* C3: record_conversion is atomic over its two writes; in particular, when
\* the request ends in failure because its lead does not exist, table
\* conversoes holds no row for that lead: the request has left nothing.
C3_FailedConversionLeavesNoRow ==
  (/\ out.req.op = "record_conversion"
   /\ out.req.conv.tipo.t = "string"
   /\ out.res.status = 500
   /\ ~LeadExists(leads, out.req.id)) =>
    \A k \in 1 .. Len(conversoes) : conversoes[k].leadId # out.req.id

\* C4: every stored conversion's lead_id is the id of a stored lead, and an
\* authorized record_conversion (with a tipo) whose leadId matches no lead
\* is answered not-found.
C4_ConversionLeadExists ==
  /\ \A k \in 1 .. Len(conversoes) : LeadExists(leads, conversoes[k].leadId)
  /\ (/\ out.req.op = "record_conversion"
      /\ out.req.conv.tipo.t = "string"
      /\ out.res.status # 401
      /\ ~LeadExists(leads, out.req.id)) => out.res.status = 404

\* C5: an authorized status update whose status is not one of the five
\* values (a missing status included) is answered 400 INVALID_STATUS and
\* changes nothing in the store, whether or not the id exists.
C5_InvalidStatusRejected ==
  [][(/\ out'.req.op = "update_status"
      /\ ~Unauthorized(out'.req.key)
      /\ out'.req.status \notin {Str(s) : s \in validStatuses}) =>
       /\ out'.res.status = 400
       /\ out'.res.code = "INVALID_STATUS"
       /\ leads' = leads
       /\ conversoes' = conversoes
    ]_vars

\* a missing status was turned down for a lead that exists
C5_MissingStatusOnStoredLead ==
  /\ out.req.op = "update_status"
  /\ out.req.status = Undef
  /\ out.res.code = "INVALID_STATUS"
  /\ LeadExists(leads, out.req.id)

\* C6: on the five gated operations, a request whose key is neither the
\* configured secret (when one is configured) nor the fallback literal is
\* answered 401; this covers an absent key and an unset secret.
C6_GateRejectsOtherKeys ==
  (/\ out.req.op \in GatedOps
   /\ ~(API_KEY.t = "string" /\ out.req.key = API_KEY)
   /\ out.req.key # Str(FallbackKey)) => out.res.status = 401

\* C7: every stored lead satisfies the rules of submit_lead: a name of at
\* least 2 characters after trimming, a well-formed email, a valid phone.
C7_StoredLeadsValid ==
  \A i \in 1 .. Len(leads) :
    /\ Len(trim(leads[i].nome)) >= 2
    /\ isValidEmail(Str(leads[i].email))
    /\ isValidPhone(Str(leads[i].telefone))

\* C8: a listing with page p and limit l over the N leads matching its
\* filter returns the leads at positions (p-1)*l+1 .. min(p*l, N) of an
\* ordering by capture time descending (none when (p-1)*l >= N), with
\* total = N and totalPages = ceil(N/l).
C8_Pagination ==
  (out.req.op = "list_leads" /\ out.res.status = 200) =>
    LET p == out.req.query.page[1]
        l == out.req.query.limit[1]
        M == {i \in 1 .. Len(leads) :
                Truthy(out.req.query.status) =>
                  leads[i].status = out.req.query.status.v}
        N == Cardinality(M)
        first == (p - 1) * l + 1
        last == IF p * l <= N THEN p * l ELSE N
        size == IF last >= first THEN last - first + 1 ELSE 0
    IN /\ \E ord \in [1 .. N -> M] :
            /\ \A i, j \in 1 .. N : i # j => ord[i] # ord[j]
            /\ \A i, j \in 1 .. N :
                 i < j => leads[ord[i]].dataCaptura >= leads[ord[j]].dataCaptura
            /\ out.res.data = [k \in 1 .. size |-> leads[ord[first + k - 1]]]
       /\ out.res.info[1] = N
       /\ out.res.info[4] * l >= N
       /\ (out.res.info[4] - 1) * l < N

\* page 2 of 4 leads by 2: the two oldest, the older one last
C8_SecondPage ==
  /\ out.req.op = "list_leads"
  /\ out.req.query.page = <<2>>
  /\ out.req.query.limit = <<2>>
  /\ out.res.info = <<4, 2, 2, 2>>
  /\ Len(out.res.data) = 2
  /\ out.res.data[1].dataCaptura > out.res.data[2].dataCaptura

\* C9: no step deletes a lead or changes its id, name, email, phone, source,
\* attribution or capture time; a lead changes (in status and update time)
\* only in the step that answers an update_status or a record_conversion
\* for that lead; steps of list, get and stats change no table.
C9_LeadsImmutable ==
  [][/\ Len(leads') >= Len(leads)
     /\ \A i \in 1 .. Len(leads) :
          /\ i <= Len(leads')
          /\ leads'[i].id = leads[i].id
          /\ leads'[i].nome = leads[i].nome
          /\ leads'[i].email = leads[i].email
          /\ leads'[i].telefone = leads[i].telefone
          /\ leads'[i].origem = leads[i].origem
          /\ leads'[i].utmSource = leads[i].utmSource
          /\ leads'[i].dataCaptura = leads[i].dataCaptura
          /\ leads'[i] # leads[i] =>
               /\ out'.req.op \in {"update_status", "record_conversion"}
               /\ out'.req.id = i
     /\ leads' # leads =>
          out'.req.op \in {"submit_lead", "update_status", "record_conversion"}
     /\ conversoes' # conversoes =>
          \E h \in BagToSet(inflight') :
            /\ h.req.op = "record_conversion"
            /\ h.loc.conversao = <<conversoes'[Len(conversoes')]>>
    ]_vars

\* a status update was applied to one of two leads
C9_OneOfTwoUpdated ==
  /\ out.req.op = "update_status"
  /\ out.res.status = 200
  /\ Len(leads) = 2
  /\ leads[1].status # leads[2].status

\* C10: every stored lead's status is one of the five values; a lead is
\* created with status novo; and when a record_conversion is answered 201
\* its lead has status convertido.
C10_StatusEnum ==
  [][/\ \A i \in 1 .. Len(leads') :
          /\ leads'[i].status \in validStatuses
          /\ i > Len(leads) => leads'[i].status = novo
     /\ (out'.req.op = "record_conversion" /\ out'.res.status = 201) =>
          leads'[out'.req.id].status = convertido
    ]_vars

\* a conversion was recorded for a lead some time after its capture
C10_ConversionRecorded ==
  /\ out.req.op = "record_conversion"
  /\ out.res.status = 201
  /\ leads[out.req.id].status = convertido
  /\ leads[out.req.id].dataAtualizacao > leads[out.req.id].dataCaptura

=============================================================================
